---- MODULE Spec2Model ----
(***************************************************************************)
(* Teacher portal (Deepak01822/tailwebs_assignment, package portal):       *)
(* session login/logout, the authentication gate, the add/merge, inline    *)
(* update and delete of student marks, and the audit log.                  *)
(*                                                                         *)
(* Text is modelled as a sequence of one-character strings, so that        *)
(* strip(), html.escape() and the validators are computed, not assumed.    *)
(* A nullable integer column holds {} (NULL) or {n}.  Foreign keys hold    *)
(* the teacher's id, as the tables do.  The columns created_at and         *)
(* updated_at of Student are not read by any handler and are left out.     *)
(***************************************************************************)
EXTENDS Integers, Sequences, FiniteSets, TLC

(* ------------------------------ bounds -------------------------------- *)
(* writing requests served: AuditLog rows, plus sessions left without one *)
MaxAudit == 3
(* the clock stops here *)
MaxTime == 8
(* AuditLog rows in the scripted session *)
MaxScenario == 5
(* AuditLog rows in a listed log *)
MaxLog == 102
(* characters in a submitted name or subject *)
MaxNameLen == 3
(* AuditLog rows written by two teachers side by side *)
MaxShared == 5

(* ------------------------- program constants -------------------------- *)
SESSION_HOURS == 8
MAX_MARKS == 100
MIN_NAME_LEN == 2
MIN_USERNAME_LEN == 3
MIN_PASSWORD_LEN == 6
LOG_LIMIT == 100

NULL == {}
Some(n) == {n}
NoTeacher == 0
NoCookie == 0
NoRow == [id |-> 0]

(* ------------------------------- text --------------------------------- *)
Letters == {"A", "B", "a", "b", "c", "e", "h", "l", "m", "o", "t", "v", "y", "M"}
Whitespace == {" ", "\t"}

RECURSIVE lstrip(_)
lstrip(s) ==
    IF s # <<>> /\ Head(s) \in Whitespace THEN lstrip(Tail(s)) ELSE s

RECURSIVE rstrip(_)
rstrip(s) ==
    IF s # <<>> /\ s[Len(s)] \in Whitespace
    THEN rstrip(SubSeq(s, 1, Len(s) - 1))
    ELSE s

strip(s) == rstrip(lstrip(s))

escape_char(c) ==
    CASE c = "&" -> <<"&", "a", "m", "p", ";">>
      [] c = "<" -> <<"&", "l", "t", ";">>
      [] c = ">" -> <<"&", "g", "t", ";">>
      [] c = "\"" -> <<"&", "q", "u", "o", "t", ";">>
      [] c = "'" -> <<"&", "#", "x", "2", "7", ";">>
      [] OTHER -> <<c>>

RECURSIVE html_escape(_)
html_escape(s) ==
    IF s = <<>> THEN <<>> ELSE escape_char(Head(s)) \o html_escape(Tail(s))

(* re.match(r'^[a-zA-Z\s]+$', s) on a string without a trailing newline *)
re_match_letters_ws(s) ==
    /\ Len(s) >= 1
    /\ \A i \in 1..Len(s) : s[i] \in Letters \cup Whitespace

(* utils.validate_name / validate_subject: <<ok, value>> *)
validate_name(name) ==
    IF name = <<>> \/ Len(strip(name)) < MIN_NAME_LEN THEN [ok |-> FALSE, value |-> <<>>]
    ELSE IF ~re_match_letters_ws(strip(name)) THEN [ok |-> FALSE, value |-> <<>>]
    ELSE [ok |-> TRUE, value |-> strip(name)]

validate_subject(subject) ==
    IF subject = <<>> \/ Len(strip(subject)) < MIN_NAME_LEN THEN [ok |-> FALSE, value |-> <<>>]
    ELSE IF ~re_match_letters_ws(strip(subject)) THEN [ok |-> FALSE, value |-> <<>>]
    ELSE [ok |-> TRUE, value |-> strip(subject)]

(* forms.validate_name / validate_subject *)
forms_validate_name(name) ==
    IF name = <<>> \/ Len(strip(name)) < MIN_NAME_LEN THEN [ok |-> FALSE, value |-> <<>>]
    ELSE IF ~re_match_letters_ws(strip(name)) THEN [ok |-> FALSE, value |-> <<>>]
    ELSE [ok |-> TRUE, value |-> strip(name)]

forms_validate_subject(subject) ==
    IF subject = <<>> \/ Len(strip(subject)) < MIN_NAME_LEN THEN [ok |-> FALSE, value |-> <<>>]
    ELSE IF ~re_match_letters_ws(strip(subject)) THEN [ok |-> FALSE, value |-> <<>>]
    ELSE [ok |-> TRUE, value |-> strip(subject)]

validate_marks(marks) ==
    IF marks < 0 \/ marks > MAX_MARKS THEN [ok |-> FALSE, value |-> 0]
    ELSE [ok |-> TRUE, value |-> marks]

(* StudentSerializer.validate_name / validate_subject, after the CharField *)
(* has trimmed the value and refused a blank one.                          *)
serializer_validate_name(raw) ==
    LET value == strip(raw) IN
    IF value = <<>> THEN [ok |-> FALSE, value |-> <<>>]
    ELSE validate_name(html_escape(strip(value)))

serializer_validate_subject(raw) ==
    LET value == strip(raw) IN
    IF value = <<>> THEN [ok |-> FALSE, value |-> <<>>]
    ELSE validate_subject(html_escape(strip(value)))

(* variants of calculate_new_marks: without the cap, without the sum *)
calculate_new_marks_uncapped(existing_marks, new_marks) ==
    [success |-> TRUE, total |-> existing_marks + new_marks]

calculate_new_marks_replace(existing_marks, new_marks) ==
    IF new_marks > MAX_MARKS
    THEN [success |-> FALSE, total |-> new_marks]
    ELSE [success |-> TRUE, total |-> new_marks]

(* utils.calculate_new_marks *)
calculate_new_marks(existing_marks, new_marks) ==
    LET total == existing_marks + new_marks IN
    IF total > MAX_MARKS
    THEN [success |-> FALSE, total |-> total]
    ELSE [success |-> TRUE, total |-> total]

(* utils.get_client_ip: first X-Forwarded-For entry, else REMOTE_ADDR *)
get_client_ip(meta) ==
    IF meta.xff # <<>> THEN Head(meta.xff) ELSE meta.remote_addr

(* ------------------------------ tables -------------------------------- *)
sha256(text) == [digest_of |-> text]

amy == <<"a", "m", "y">>
bob == <<"b", "o", "b">>
eve == <<"e", "v", "e">>
pw_amy == <<"a", "b", "c", "a", "b", "c">>
pw_bob == <<"b", "c", "a", "b", "c", "a">>

(* Teacher rows as registration left them: set_password(raw) stores a salt *)
(* and sha256(raw + salt).                                                 *)
set_password(row, raw_password, salt) ==
    [row EXCEPT !.salt = salt, !.password_hash = sha256(raw_password \o salt)]

Teacher ==
    { set_password([id |-> 1, username |-> amy, salt |-> <<>>, password_hash |-> <<>>],
                   pw_amy, <<"1">>),
      set_password([id |-> 2, username |-> bob, salt |-> <<>>, password_hash |-> <<>>],
                   pw_bob, <<"2">>) }

check_password(teacher, raw_password) ==
    sha256(raw_password \o teacher.salt) = teacher.password_hash

VARIABLES Student,   \* rows [id, name, subject, marks, teacher]
    SessionToken,   \* rows [teacher, token, expires_at]
    AuditLog,       \* rows in insertion (timestamp) order
    now,            \* timezone.now(), in hours
    nextId,         \* next Student primary key
    nextToken,      \* tokens handed out so far, plus one: secrets.token_hex(32) is fresh
    resp,           \* the response to the last request
    req             \* requests in flight: per worker, its position and locals

vars == <<Student, SessionToken, AuditLog, now, nextId, nextToken, resp, req>>
tables == <<Student, SessionToken, AuditLog, nextId, nextToken>>

(* one row of AuditLog; ip_address is NOT NULL (models.py 84) *)
audit_row(teacher, action, student_name, subject, old_marks, new_marks, ip) ==
    [teacher |-> teacher, action |-> action, student_name |-> student_name,
     subject |-> subject, old_marks |-> old_marks, new_marks |-> new_marks,
     ip_address |-> ip]

NoIp == ""
NA == <<"N", "/", "A">>

(* AuditLog.objects.create: IntegrityError when ip_address is None *)
AuditLog_create(A, row) ==
    IF row.ip_address = NoIp
    THEN [ok |-> FALSE, AuditLog |-> A]
    ELSE [ok |-> TRUE, AuditLog |-> Append(A, row)]

(* variant of is_valid: valid at expires_at too *)
is_valid_inclusive(session, t) == t <= session.expires_at

(* SessionToken.is_valid *)
is_valid(session, t) == t < session.expires_at

(* SessionToken.create_token, its two statements *)
create_token_delete(T, teacher) == {s \in T : s.teacher # teacher}

create_token_insert(T, teacher, token, t) ==
    T \cup {[teacher |-> teacher, token |-> token, expires_at |-> t + SESSION_HOURS]}

(* variant of check_auth: expiry not looked at *)
check_auth_any_row(T, t, token) ==
    IF token = NoCookie THEN NoTeacher
    ELSE IF \E s \in T : s.token = token
    THEN (CHOOSE s \in T : s.token = token).teacher
    ELSE NoTeacher

(* utils.require_authentication.check_auth: the teacher bound to the request, *)
(* or NoTeacher                                                               *)
check_auth(T, t, token) ==
    IF token = NoCookie THEN NoTeacher
    ELSE IF \E s \in T : s.token = token
    THEN LET session == CHOOSE s \in T : s.token = token IN
         IF ~is_valid(session, t) THEN NoTeacher ELSE session.teacher
    ELSE NoTeacher

(* the wrapper's answer to a caller that is not authenticated *)
(* a response: status, what the body says, the rows it lists, the cookie  *)
(* it sets, and (not sent to the caller) the exception that produced a    *)
(* server error                                                           *)
response(status, body) ==
    [status |-> status, body |-> body, data |-> <<>>, set_cookie |-> NoCookie,
     exc |-> ""]

(* an exception no handler catches: the framework answers 500 *)
unhandled(exc) == [response(500, "Server Error (500)") EXCEPT !.exc = exc]

auth_required(xhr) ==
    IF xhr
    THEN response(401, "Authentication required")
    ELSE response(302, "redirect:login")

(* ------------------------- the Student table -------------------------- *)
student_row(id, name, subject, marks, teacher) ==
    [id |-> id, name |-> name, subject |-> subject, marks |-> marks, teacher |-> teacher]

(* Student.objects.get(name=, subject=, teacher=): the row, or NoRow for DoesNotExist *)
Student_get(S, name, subject, teacher) ==
    IF \E r \in S : r.name = name /\ r.subject = subject /\ r.teacher = teacher
    THEN CHOOSE r \in S : r.name = name /\ r.subject = subject /\ r.teacher = teacher
    ELSE NoRow

(* variant of get_object_or_404: the row is found by id alone *)
get_object_or_404_any_owner(S, id, teacher) ==
    IF \E r \in S : r.id = id
    THEN CHOOSE r \in S : r.id = id
    ELSE NoRow

(* get_object_or_404(Student, id=, teacher=): the row, or NoRow for Http404 *)
get_object_or_404(S, id, teacher) ==
    IF \E r \in S : r.id = id /\ r.teacher = teacher
    THEN CHOOSE r \in S : r.id = id /\ r.teacher = teacher
    ELSE NoRow

(* variant of unique_together: no constraint *)
unique_together_unchecked(S, row) == TRUE

(* Student.Meta.unique_together = ('name', 'subject', 'teacher'): would the *)
(* table with this row written break it?                                    *)
unique_together(S, row) ==
    ~\E r \in S : /\ r.id # row.id
                  /\ r.name = row.name /\ r.subject = row.subject
                  /\ r.teacher = row.teacher

(* Student.objects.create: INSERT; IntegrityError when the key is taken *)
Student_create(S, row) ==
    IF unique_together(S, row)
    THEN [ok |-> TRUE, Student |-> S \cup {row}]
    ELSE [ok |-> FALSE, Student |-> S]

(* instance.save() of a loaded row: UPDATE by primary key, and an INSERT *)
(* when no row has that key any more                                     *)
Student_save(S, row) ==
    IF ~unique_together(S, row) THEN [ok |-> FALSE, Student |-> S]
    ELSE [ok |-> TRUE, Student |-> {r \in S : r.id # row.id} \cup {row}]

(* variant of Student_delete: the row stays *)
Student_delete_nothing(S, row) == S

(* instance.delete(): DELETE by primary key *)
Student_delete(S, row) == {r \in S : r.id # row.id}

(* what one atomic block leaves: exc names the exception that left it, "" *)
(* for none; the tables are written only when exc = ""                    *)
outcome(exc, S, A, nid, student, message) ==
    [exc |-> exc, Student |-> S, AuditLog |-> A, nextId |-> nid,
     student |-> student, message |-> message]

(* StudentCreateUpdateSerializer.create, given the row that               *)
(* Student.objects.get returned (existing)                                *)
create(S, A, nid, teacher, ip, name, subject, marks, existing) ==
    IF existing # NoRow
    THEN LET calc == calculate_new_marks(existing.marks, marks)
             old_marks == existing.marks
             updated == [existing EXCEPT !.marks = calc.total]
             saved == Student_save(S, updated)
             logged == AuditLog_create(A, audit_row(teacher, "UPDATE_MARKS", name, subject,
                                                    Some(old_marks), Some(calc.total), ip))
         IN  IF ~calc.success THEN outcome("ValidationError", S, A, nid, existing, "")
             ELSE IF ~saved.ok \/ ~logged.ok
             THEN outcome("IntegrityError", S, A, nid, existing, "")
             ELSE outcome("", saved.Student, logged.AuditLog, nid, updated, "Updated marks")
    ELSE LET student == student_row(nid, name, subject, marks, teacher)
             made == Student_create(S, student)
             logged == AuditLog_create(A, audit_row(teacher, "CREATE_STUDENT", name, subject,
                                                    NULL, Some(marks), ip))
         IN  IF ~made.ok \/ ~logged.ok
             THEN outcome("IntegrityError", S, A, nid, NoRow, "")
             ELSE outcome("", made.Student, logged.AuditLog, nid + 1, student,
                          "added successfully")

(* StudentSerializer's field validation: is_valid() and validated_data *)
StudentSerializer_is_valid(data) ==
    LET n == serializer_validate_name(data.name)
        s == serializer_validate_subject(data.subject)
        m == validate_marks(data.marks)
    IN  [ok |-> n.ok /\ s.ok /\ m.ok, name |-> n.value, subject |-> s.value,
         marks |-> m.value]

(* MarksUpdateSerializer *)
MarksUpdateSerializer_is_valid(data) ==
    LET m == validate_marks(data.marks)
    IN  [ok |-> m.ok, student_id |-> data.student_id, marks |-> m.value]

(* StudentCreateView.post once is_valid() passed: the atomic block and the *)
(* response; any exception inside is answered 500 and rolls back           *)
StudentCreateView_post(S, A, nid, teacher, ip, vd, existing) ==
    LET r == create(S, A, nid, teacher, ip, vd.name, vd.subject, vd.marks, existing)
    IN  IF r.exc # ""
        THEN [r EXCEPT !.message = "Server error occurred"]
        ELSE r

(* variant of StudentUpdateView_post: the marks are added, as an add does *)
StudentUpdateView_post_merge(S, A, nid, teacher, ip, new_marks, student) ==
    IF student = NoRow THEN outcome("Http404", S, A, nid, NoRow, "Failed to update marks")
    ELSE LET total == calculate_new_marks(student.marks, new_marks)
             updated == [student EXCEPT !.marks = total.total]
             logged == AuditLog_create(A, audit_row(teacher, "INLINE_UPDATE", student.name,
                                                    student.subject, Some(student.marks),
                                                    Some(total.total), ip))
         IN  IF ~total.success \/ ~logged.ok
             THEN outcome("IntegrityError", S, A, nid, student, "Failed to update marks")
             ELSE outcome("", Student_save(S, updated).Student, logged.AuditLog, nid, updated,
                          "Marks updated successfully")

(* StudentUpdateView.post once is_valid() passed, given the row that *)
(* get_object_or_404 returned                                        *)
StudentUpdateView_post(S, A, nid, teacher, ip, new_marks, student) ==
    IF student = NoRow THEN outcome("Http404", S, A, nid, NoRow, "Failed to update marks")
    ELSE LET old_marks == student.marks
             updated == [student EXCEPT !.marks = new_marks]
             saved == Student_save(S, updated)
             logged == AuditLog_create(A, audit_row(teacher, "INLINE_UPDATE", student.name,
                                                    student.subject, Some(old_marks),
                                                    Some(new_marks), ip))
         IN  IF ~saved.ok \/ ~logged.ok
             THEN outcome("IntegrityError", S, A, nid, student, "Failed to update marks")
             ELSE outcome("", saved.Student, logged.AuditLog, nid, updated,
                          "Marks updated successfully")

(* variant of StudentDeleteView.post: the student's audit rows go with it *)
StudentDeleteView_post_cascade(S, A, nid, teacher, ip, student) ==
    IF student = NoRow THEN outcome("Http404", S, A, nid, NoRow, "Failed to delete student")
    ELSE LET about(e) == ~(e.student_name = student.name /\ e.subject = student.subject)
             logged == AuditLog_create(SelectSeq(A, about),
                                       audit_row(teacher, "DELETE_STUDENT", student.name,
                                                 student.subject, Some(student.marks),
                                                 NULL, ip))
         IN  IF ~logged.ok
             THEN outcome("IntegrityError", S, A, nid, student, "Failed to delete student")
             ELSE outcome("", Student_delete(S, student), logged.AuditLog, nid, student,
                          "Student deleted successfully")

(* StudentDeleteView.post once is_valid() passed *)
StudentDeleteView_post(S, A, nid, teacher, ip, student) ==
    IF student = NoRow THEN outcome("Http404", S, A, nid, NoRow, "Failed to delete student")
    ELSE LET logged == AuditLog_create(A, audit_row(teacher, "DELETE_STUDENT", student.name,
                                                    student.subject, Some(student.marks),
                                                    NULL, ip))
         IN  IF ~logged.ok
             THEN outcome("IntegrityError", S, A, nid, student, "Failed to delete student")
             ELSE outcome("", Student_delete(S, student), logged.AuditLog, nid, student,
                          "Student deleted successfully")

(* ------------------------------ inputs -------------------------------- *)
Bob == <<"B", "o", "b">>
Math == <<"M", "a", "t", "h">>
NameInputs == {<<" ", "B", "o", "b">>, <<"B", "0">>}
SubjectInputs == {Math}
MarksInputs == {-1, 0, 20, 80, 101}
LoginInputs ==
    { [username |-> amy, password |-> pw_amy],
      [username |-> <<" ">> \o bob, password |-> pw_bob],
      [username |-> amy, password |-> pw_bob],
      [username |-> eve, password |-> pw_amy],
      [username |-> <<"a", "m">>, password |-> pw_amy],
      [username |-> bob, password |-> <<"b", "c", "a">>] }
MetaInputs ==
    { [xff |-> <<"10.0.0.1", "10.0.0.2">>, remote_addr |-> "10.0.0.2"],
      [xff |-> <<>>, remote_addr |-> NoIp] }
ClockSteps == {4}
Workers == {1, 2}

Idle == [pc |-> "idle"]
NoResponse == response(0, "")

Init ==
    /\ Student = {}
    /\ SessionToken = {}
    /\ AuditLog = <<>>
    /\ now = 0
    /\ nextId = 1
    /\ nextToken = 1
    /\ resp = NoResponse
    /\ req = [w \in Workers |-> Idle]

(* the server takes one request at a time: the next one is read when the *)
(* response to the last one has been sent                                *)
Ready == resp = NoResponse

(* sessions stored by a login whose LOGIN row was not written *)
Unlogged ==
    (nextToken - 1)
    - Cardinality({i \in 1..Len(AuditLog) : AuditLog[i].action = "LOGIN"})

Room == Len(AuditLog) + Unlogged < MaxAudit

(* write what an atomic block left (its inputs, when it raised) *)
Commit(r) ==
    /\ Student' = r.Student
    /\ AuditLog' = r.AuditLog
    /\ nextId' = r.nextId

(* --------------------- the handlers, one request each ------------------ *)
(* LoginForm.clean_username / clean_password; both CharFields strip *)
LoginForm_is_valid(username, password) ==
    LET u == html_escape(strip(strip(username)))
        p == strip(password)
    IN  [ok |-> /\ strip(username) # <<>> /\ Len(u) >= MIN_USERNAME_LEN
                /\ p # <<>> /\ Len(p) >= MIN_PASSWORD_LEN,
         username |-> u, password |-> p]

(* Teacher.objects.get(username=): the row, or NoRow *)
Teacher_get(username) ==
    IF \E t \in Teacher : t.username = username
    THEN CHOOSE t \in Teacher : t.username = username
    ELSE NoRow

login_page == response(200, "login.html")

(* variant of LoginView.post: the teacher's token is revoked before the *)
(* password is checked                                                  *)
Login_revoke_first(form_data, meta) ==
    /\ Ready
    /\ LET form == LoginForm_is_valid(form_data.username, form_data.password)
           teacher == Teacher_get(form.username)
       IN  IF ~form.ok \/ teacher = NoRow
           THEN /\ resp' = login_page
                /\ UNCHANGED tables
           ELSE IF ~check_password(teacher, form.password)
           THEN /\ resp' = login_page
                /\ SessionToken' = create_token_delete(SessionToken, teacher.id)
                /\ UNCHANGED <<Student, AuditLog, nextId, nextToken>>
           ELSE LET token == nextToken
                    sessions == create_token_insert(
                                    create_token_delete(SessionToken, teacher.id),
                                    teacher.id, token, now)
                    logged == AuditLog_create(AuditLog,
                                  audit_row(teacher.id, "LOGIN", NA, NA, NULL, NULL,
                                            get_client_ip(meta)))
                IN  /\ SessionToken' = sessions
                    /\ nextToken' = nextToken + 1
                    /\ AuditLog' = logged.AuditLog
                    /\ resp' = IF logged.ok
                               THEN [response(302, "redirect:home")
                                        EXCEPT !.set_cookie = token]
                               ELSE unhandled("IntegrityError")
                    /\ UNCHANGED <<Student, nextId>>
    /\ UNCHANGED <<now, req>>

(* LoginView.post: no transaction around create_token and the LOGIN row, *)
(* and no handler for an exception of the latter                         *)
Login(form_data, meta) ==
    /\ Ready
    /\ LET form == LoginForm_is_valid(form_data.username, form_data.password)
           teacher == Teacher_get(form.username)
       IN  IF ~form.ok \/ teacher = NoRow \/ ~check_password(teacher, form.password)
           THEN /\ resp' = login_page
                /\ UNCHANGED tables
           ELSE LET token == nextToken
                    sessions == create_token_insert(
                                    create_token_delete(SessionToken, teacher.id),
                                    teacher.id, token, now)
                    logged == AuditLog_create(AuditLog,
                                  audit_row(teacher.id, "LOGIN", NA, NA, NULL, NULL,
                                            get_client_ip(meta)))
                IN  /\ SessionToken' = sessions
                    /\ nextToken' = nextToken + 1
                    /\ AuditLog' = logged.AuditLog
                    /\ resp' = IF logged.ok
                               THEN [response(302, "redirect:home")
                                        EXCEPT !.set_cookie = token]
                               ELSE unhandled("IntegrityError")
                    /\ UNCHANGED <<Student, nextId>>
    /\ UNCHANGED <<now, req>>

(* variant of LogoutView.post: the session row is left in place *)
Logout_keep_row(cookie, meta) ==
    /\ Ready
    /\ IF cookie # NoCookie /\ \E s \in SessionToken : s.token = cookie
       THEN LET session == CHOOSE s \in SessionToken : s.token = cookie
                logged == AuditLog_create(AuditLog,
                              audit_row(session.teacher, "LOGOUT", NA, NA, NULL, NULL,
                                        get_client_ip(meta)))
            IN  IF logged.ok
                THEN /\ AuditLog' = logged.AuditLog
                     /\ UNCHANGED SessionToken
                     /\ resp' = response(302, "redirect:login")
                ELSE /\ UNCHANGED <<AuditLog, SessionToken>>
                     /\ resp' = unhandled("IntegrityError")
       ELSE /\ UNCHANGED <<AuditLog, SessionToken>>
            /\ resp' = response(302, "redirect:login")
    /\ UNCHANGED <<Student, nextId, nextToken, now, req>>

(* LogoutView.post: the session is looked up by token alone *)
Logout(cookie, meta) ==
    /\ Ready
    /\ IF cookie # NoCookie /\ \E s \in SessionToken : s.token = cookie
       THEN LET session == CHOOSE s \in SessionToken : s.token = cookie
                logged == AuditLog_create(AuditLog,
                              audit_row(session.teacher, "LOGOUT", NA, NA, NULL, NULL,
                                        get_client_ip(meta)))
            IN  IF logged.ok
                THEN /\ AuditLog' = logged.AuditLog
                     /\ SessionToken' = SessionToken \ {session}
                     /\ resp' = response(302, "redirect:login")
                ELSE /\ UNCHANGED <<AuditLog, SessionToken>>
                     /\ resp' = unhandled("IntegrityError")
       ELSE /\ UNCHANGED <<AuditLog, SessionToken>>
            /\ resp' = response(302, "redirect:login")
    /\ UNCHANGED <<Student, nextId, nextToken, now, req>>

(* variant of the wrapper: a token that has a row is told apart *)
AuthRequired_tell_expired(cookie, xhr) ==
    /\ Ready
    /\ check_auth(SessionToken, now, cookie) = NoTeacher
    /\ resp' = IF \E s \in SessionToken : s.token = cookie
               THEN response(401, "Session expired")
               ELSE auth_required(xhr)
    /\ UNCHANGED <<tables, now, req>>

(* require_authentication's wrapper when check_auth fails: the view is not *)
(* called                                                                  *)
AuthRequired(cookie, xhr) ==
    /\ Ready
    /\ check_auth(SessionToken, now, cookie) = NoTeacher
    /\ resp' = auth_required(xhr)
    /\ UNCHANGED <<tables, now, req>>

(* HomeView, StudentListView *)
ReadOnly(body, cookie) ==
    /\ Ready
    /\ check_auth(SessionToken, now, cookie) # NoTeacher
    /\ resp' = response(200, body)
    /\ UNCHANGED <<tables, now, req>>

Home(cookie) == ReadOnly("home.html", cookie)

StudentList(cookie) == ReadOnly("students", cookie)

RECURSIVE reverse(_)
reverse(seq) ==
    IF seq = <<>> THEN <<>> ELSE Append(reverse(Tail(seq)), Head(seq))

(* variants of AuditLogView_get: every teacher's rows; oldest first *)
AuditLogView_get_all(A, teacher) ==
    LET newest == reverse(A)
    IN  SubSeq(newest, 1, IF Len(newest) < LOG_LIMIT THEN Len(newest) ELSE LOG_LIMIT)

AuditLogView_get_oldest(A, teacher) ==
    LET mine(e) == e.teacher = teacher
        oldest == SelectSeq(A, mine)
    IN  SubSeq(oldest, 1, IF Len(oldest) < LOG_LIMIT THEN Len(oldest) ELSE LOG_LIMIT)

(* AuditLog.objects.filter(teacher=).order_by('-timestamp')[:100] *)
AuditLogView_get(A, teacher) ==
    LET mine(e) == e.teacher = teacher
        newest == reverse(SelectSeq(A, mine))
    IN  SubSeq(newest, 1, IF Len(newest) < LOG_LIMIT THEN Len(newest) ELSE LOG_LIMIT)

(* AuditLogView.get *)
AuditLogList(cookie) ==
    /\ Ready
    /\ check_auth(SessionToken, now, cookie) # NoTeacher
    /\ resp' = [response(200, "logs") EXCEPT
                    !.data = AuditLogView_get(AuditLog,
                                 check_auth(SessionToken, now, cookie))]
    /\ UNCHANGED <<tables, now, req>>

(* answer of an AJAX handler from what its atomic block left *)
answer(ok_status, r) ==
    IF r.exc = "" THEN response(ok_status, r.message)
    ELSE [response(500, r.message) EXCEPT !.exc = r.exc]

(* StudentCreateView.post *)
StudentCreate(cookie, meta, data) ==
    /\ Ready
    /\ check_auth(SessionToken, now, cookie) # NoTeacher
    /\ LET teacher == check_auth(SessionToken, now, cookie)
           vd == StudentSerializer_is_valid(data)
           r == StudentCreateView_post(Student, AuditLog, nextId, teacher,
                    get_client_ip(meta), vd,
                    Student_get(Student, vd.name, vd.subject, teacher))
       IN  IF ~vd.ok
           THEN /\ resp' = response(400, "Invalid form data")
                /\ UNCHANGED <<Student, AuditLog, nextId>>
           ELSE resp' = answer(201, r) /\ Commit(r)
    /\ UNCHANGED <<SessionToken, nextToken, now, req>>

(* StudentUpdateView.post *)
StudentUpdate(cookie, meta, data) ==
    /\ Ready
    /\ check_auth(SessionToken, now, cookie) # NoTeacher
    /\ LET teacher == check_auth(SessionToken, now, cookie)
           vd == MarksUpdateSerializer_is_valid(data)
           r == StudentUpdateView_post(Student, AuditLog, nextId, teacher,
                    get_client_ip(meta), vd.marks,
                    get_object_or_404(Student, vd.student_id, teacher))
       IN  IF ~vd.ok
           THEN /\ resp' = response(400, "Invalid data")
                /\ UNCHANGED <<Student, AuditLog, nextId>>
           ELSE resp' = answer(200, r) /\ Commit(r)
    /\ UNCHANGED <<SessionToken, nextToken, now, req>>

(* StudentDeleteView.post *)
StudentDelete(cookie, meta, student_id) ==
    /\ Ready
    /\ check_auth(SessionToken, now, cookie) # NoTeacher
    /\ LET teacher == check_auth(SessionToken, now, cookie)
           r == StudentDeleteView_post(Student, AuditLog, nextId, teacher,
                    get_client_ip(meta),
                    get_object_or_404(Student, student_id, teacher))
       IN  resp' = answer(200, r) /\ Commit(r)
    /\ UNCHANGED <<SessionToken, nextToken, now, req>>

(* the response leaves the server *)
Respond ==
    /\ ~Ready
    /\ resp' = NoResponse
    /\ UNCHANGED <<tables, now, req>>

(* the clock *)
Tick ==
    /\ Ready
    /\ \E d \in ClockSteps : now + d <= MaxTime /\ now' = now + d
    /\ UNCHANGED <<tables, resp, req>>

Cookies == 0..nextToken
StudentIds == 1..nextId
AddData == [name : NameInputs, subject : SubjectInputs, marks : MarksInputs]
UpdateData == [student_id : StudentIds, marks : MarksInputs]

Next ==
    \/ Room /\ \E f \in LoginInputs, m \in MetaInputs : Login(f, m)
    \/ Room /\ \E c \in Cookies, m \in MetaInputs : Logout(c, m)
    \/ \E c \in Cookies, x \in BOOLEAN : AuthRequired(c, x)
    \/ \E c \in Cookies : Home(c)
    \/ \E c \in Cookies : StudentList(c)
    \/ \E c \in Cookies : AuditLogList(c)
    \/ Room /\ \E c \in Cookies, m \in MetaInputs, d \in AddData : StudentCreate(c, m, d)
    \/ Room /\ \E c \in Cookies, m \in MetaInputs, d \in UpdateData : StudentUpdate(c, m, d)
    \/ Room /\ \E c \in Cookies, m \in MetaInputs, i \in StudentIds : StudentDelete(c, m, i)
    \/ Respond
    \/ Tick

Spec == Init /\ [][Next]_vars

(* ------------------- overlapping requests, by statement ---------------- *)
(* Two workers serve requests at the same time.  A step is one statement   *)
(* on the store, or one transaction.atomic block's writes at its commit:   *)
(* a SELECT sees what is committed, and get() takes no lock (there is no   *)
(* select_for_update).  LoginView.post has no transaction: its statements  *)
(* commit one by one.                                                      *)
InFlight == {w \in Workers : req[w] # Idle}

ConcRoom == Len(AuditLog) + Cardinality(InFlight) < MaxAudit + 1

ConcMetaInputs == {m \in MetaInputs : get_client_ip(m) # NoIp}

(* LoginView.post up to and including create_token's DELETE *)
LoginBegin(w, form_data, meta) ==
    /\ Ready /\ req[w] = Idle /\ ConcRoom
    /\ LET form == LoginForm_is_valid(form_data.username, form_data.password)
           teacher == Teacher_get(form.username)
       IN  IF ~form.ok \/ teacher = NoRow \/ ~check_password(teacher, form.password)
           THEN /\ resp' = login_page
                /\ UNCHANGED <<SessionToken, nextToken, req>>
           ELSE /\ req' = [req EXCEPT ![w] =
                              [pc |-> "login_insert", teacher |-> teacher.id,
                               token |-> nextToken, at |-> now,
                               ip |-> get_client_ip(meta)]]
                /\ nextToken' = nextToken + 1
                /\ SessionToken' = create_token_delete(SessionToken, teacher.id)
                /\ UNCHANGED resp
    /\ UNCHANGED <<Student, AuditLog, nextId, now>>

(* create_token's INSERT *)
LoginInsert(w) ==
    /\ Ready /\ req[w].pc = "login_insert"
    /\ SessionToken' = create_token_insert(SessionToken, req[w].teacher, req[w].token,
                                           req[w].at)
    /\ req' = [req EXCEPT ![w].pc = "login_audit"]
    /\ UNCHANGED <<Student, AuditLog, nextId, nextToken, now, resp>>

(* the LOGIN row and the redirect *)
LoginAudit(w) ==
    /\ Ready /\ req[w].pc = "login_audit"
    /\ LET logged == AuditLog_create(AuditLog,
                         audit_row(req[w].teacher, "LOGIN", NA, NA, NULL, NULL, req[w].ip))
       IN  /\ AuditLog' = logged.AuditLog
           /\ resp' = IF logged.ok
                      THEN [response(302, "redirect:home")
                               EXCEPT !.set_cookie = req[w].token]
                      ELSE unhandled("IntegrityError")
           /\ req' = [req EXCEPT ![w] = Idle]
    /\ UNCHANGED <<Student, SessionToken, nextId, nextToken, now>>

(* the wrapper and is_valid() of StudentCreateView.post *)
AddBegin(w, cookie, meta, data) ==
    /\ Ready /\ req[w] = Idle /\ ConcRoom
    /\ check_auth(SessionToken, now, cookie) # NoTeacher
    /\ LET vd == StudentSerializer_is_valid(data)
       IN  IF ~vd.ok
           THEN resp' = response(400, "Invalid form data") /\ UNCHANGED req
           ELSE /\ req' = [req EXCEPT ![w] =
                              [pc |-> "add_get",
                               teacher |-> check_auth(SessionToken, now, cookie),
                               ip |-> get_client_ip(meta), vd |-> vd]]
                /\ UNCHANGED resp
    /\ UNCHANGED <<tables, now>>

(* Student.objects.get in StudentCreateUpdateSerializer.create *)
AddGet(w) ==
    /\ Ready /\ req[w].pc = "add_get"
    /\ req' = [req EXCEPT ![w] =
                  [pc |-> "add_write", teacher |-> req[w].teacher, ip |-> req[w].ip,
                   vd |-> req[w].vd,
                   row |-> Student_get(Student, req[w].vd.name, req[w].vd.subject,
                                       req[w].teacher)]]
    /\ UNCHANGED <<tables, now, resp>>

(* the rest of create and the commit of the atomic block *)
AddWrite(w) ==
    /\ Ready /\ req[w].pc = "add_write"
    /\ LET r == StudentCreateView_post(Student, AuditLog, nextId, req[w].teacher,
                    req[w].ip, req[w].vd, req[w].row)
       IN  /\ Commit(r)
           /\ resp' = answer(201, r)
           /\ req' = [req EXCEPT ![w] = Idle]
    /\ UNCHANGED <<SessionToken, nextToken, now>>

(* the wrapper and is_valid() of StudentUpdateView.post *)
UpdateBegin(w, cookie, meta, data) ==
    /\ Ready /\ req[w] = Idle /\ ConcRoom
    /\ check_auth(SessionToken, now, cookie) # NoTeacher
    /\ LET vd == MarksUpdateSerializer_is_valid(data)
       IN  IF ~vd.ok
           THEN resp' = response(400, "Invalid data") /\ UNCHANGED req
           ELSE /\ req' = [req EXCEPT ![w] =
                              [pc |-> "update_get",
                               teacher |-> check_auth(SessionToken, now, cookie),
                               ip |-> get_client_ip(meta), vd |-> vd]]
                /\ UNCHANGED resp
    /\ UNCHANGED <<tables, now>>

(* get_object_or_404 in StudentUpdateView.post *)
UpdateGet(w) ==
    /\ Ready /\ req[w].pc = "update_get"
    /\ req' = [req EXCEPT ![w] =
                  [pc |-> "update_write", teacher |-> req[w].teacher, ip |-> req[w].ip,
                   vd |-> req[w].vd,
                   row |-> get_object_or_404(Student, req[w].vd.student_id,
                                             req[w].teacher)]]
    /\ UNCHANGED <<tables, now, resp>>

(* save(), the INLINE_UPDATE row and the commit *)
UpdateWrite(w) ==
    /\ Ready /\ req[w].pc = "update_write"
    /\ LET r == StudentUpdateView_post(Student, AuditLog, nextId, req[w].teacher,
                    req[w].ip, req[w].vd.marks, req[w].row)
       IN  /\ Commit(r)
           /\ resp' = answer(200, r)
           /\ req' = [req EXCEPT ![w] = Idle]
    /\ UNCHANGED <<SessionToken, nextToken, now>>

(* the wrapper of StudentDeleteView.post *)
DeleteBegin(w, cookie, meta, student_id) ==
    /\ Ready /\ req[w] = Idle /\ ConcRoom
    /\ check_auth(SessionToken, now, cookie) # NoTeacher
    /\ req' = [req EXCEPT ![w] =
                  [pc |-> "delete_get",
                   teacher |-> check_auth(SessionToken, now, cookie),
                   ip |-> get_client_ip(meta), student_id |-> student_id]]
    /\ UNCHANGED <<tables, now, resp>>

(* get_object_or_404 in StudentDeleteView.post *)
DeleteGet(w) ==
    /\ Ready /\ req[w].pc = "delete_get"
    /\ req' = [req EXCEPT ![w] =
                  [pc |-> "delete_write", teacher |-> req[w].teacher, ip |-> req[w].ip,
                   row |-> get_object_or_404(Student, req[w].student_id,
                                             req[w].teacher)]]
    /\ UNCHANGED <<tables, now, resp>>

(* the DELETE_STUDENT row, delete() and the commit *)
DeleteWrite(w) ==
    /\ Ready /\ req[w].pc = "delete_write"
    /\ LET r == StudentDeleteView_post(Student, AuditLog, nextId, req[w].teacher,
                    req[w].ip, req[w].row)
       IN  /\ Commit(r)
           /\ resp' = answer(200, r)
           /\ req' = [req EXCEPT ![w] = Idle]
    /\ UNCHANGED <<SessionToken, nextToken, now>>

ConcLoginInputs == {f \in LoginInputs : f.password = pw_amy}

NextConc ==
    \/ Respond
    \/ \E w \in Workers :
        \/ \E f \in ConcLoginInputs, m \in ConcMetaInputs : LoginBegin(w, f, m)
        \/ LoginInsert(w)
        \/ LoginAudit(w)
        \/ \E c \in Cookies, m \in ConcMetaInputs, d \in AddData : AddBegin(w, c, m, d)
        \/ AddGet(w)
        \/ AddWrite(w)
        \/ \E c \in Cookies, m \in ConcMetaInputs, d \in UpdateData : UpdateBegin(w, c, m, d)
        \/ UpdateGet(w)
        \/ UpdateWrite(w)
        \/ \E c \in Cookies, m \in ConcMetaInputs, i \in StudentIds : DeleteBegin(w, c, m, i)
        \/ DeleteGet(w)
        \/ DeleteWrite(w)

SpecConc == Init /\ [][NextConc]_vars


(* ------------------ one teacher's session, by request ------------------ *)
(* One login of amy, then her adds, inline updates, deletes and listings   *)
(* of (Bob, Math), served one at a time.                                   *)
ScenarioLogin == [username |-> amy, password |-> pw_amy]
ScenarioMeta == [xff |-> <<"10.0.0.1", "10.0.0.2">>, remote_addr |-> "10.0.0.2"]
ScenarioAdds == [name : {Bob}, subject : {Math}, marks : {20, 40, 70}]
ScenarioUpdates == [student_id : StudentIds, marks : {95}]
ScenarioRoom == Len(AuditLog) < MaxScenario

NextScenario ==
    \/ ScenarioRoom /\ nextToken = 1 /\ Login(ScenarioLogin, ScenarioMeta)
    \/ ScenarioRoom /\ \E c \in Cookies, d \in ScenarioAdds : StudentCreate(c, ScenarioMeta, d)
    \/ ScenarioRoom /\ \E c \in Cookies, d \in ScenarioUpdates : StudentUpdate(c, ScenarioMeta, d)
    \/ ScenarioRoom /\ \E c \in Cookies, i \in StudentIds : StudentDelete(c, ScenarioMeta, i)
    \/ \E c \in Cookies : AuditLogList(c)
    \/ Respond

SpecScenario == Init /\ [][NextScenario]_vars


(* ------------------------ listing of a long log ------------------------ *)
(* The log after n logins from n addresses, all by amy but for at most one *)
(* by bob; each teacher holds the session of their latest login.           *)
LoginRow(teacher, i) ==
    audit_row(teacher, "LOGIN", NA, NA, NULL, NULL, "10.0.1." \o ToString(i))

LogOf(n, k) == [i \in 1..n |-> LoginRow(IF i = k THEN 2 ELSE 1, i)]

SessionsOf(A) ==
    {[teacher |-> A[i].teacher, token |-> i, expires_at |-> SESSION_HOURS] :
        i \in {j \in 1..Len(A) : \A h \in (j + 1)..Len(A) : A[h].teacher # A[j].teacher}}

InitLogs ==
    /\ \E n \in 0..MaxLog : \E k \in {0, 1, n \div 2, n} :
          /\ AuditLog = LogOf(n, k)
          /\ SessionToken = SessionsOf(LogOf(n, k))
          /\ nextToken = n + 1
    /\ Student = {}
    /\ now = 0
    /\ nextId = 1
    /\ resp = NoResponse
    /\ req = [w \in Workers |-> Idle]

NextLogs ==
    \/ \E c \in Cookies : AuditLogList(c)
    \/ Respond

SpecLogs == InitLogs /\ [][NextLogs]_vars


(* ---------------------- names and subjects submitted ------------------- *)
(* amy holds a session; a text of up to MaxNameLen characters has been     *)
(* received and is submitted as the name, or as the subject, of an add.    *)
NameAlphabet == {"A", "b", " ", "\t", "1", "-", "&"}
NameStrings == UNION {[1..k -> NameAlphabet] : k \in 0..MaxNameLen}

InitNames ==
    /\ \E t \in NameStrings :
          req = [w \in Workers |-> IF w = 1 THEN [pc |-> "received", text |-> t] ELSE Idle]
    /\ Student = {}
    /\ SessionToken = create_token_insert({}, 1, 1, 0)
    /\ AuditLog = <<audit_row(1, "LOGIN", NA, NA, NULL, NULL, "10.0.0.1")>>
    /\ now = 0
    /\ nextId = 1
    /\ nextToken = 2
    /\ resp = NoResponse

SubmitName(t) == StudentCreate(1, ScenarioMeta, [name |-> t, subject |-> Math, marks |-> 20])
SubmitSubject(t) == StudentCreate(1, ScenarioMeta, [name |-> Bob, subject |-> t, marks |-> 20])

NextNames ==
    \/ \E w \in Workers : req[w].pc = "received" /\ SubmitName(req[w].text)
    \/ \E w \in Workers : req[w].pc = "received" /\ SubmitSubject(req[w].text)
    \/ Respond

SpecNames == InitNames /\ [][NextNames]_vars


(* ----------------------- two teachers side by side --------------------- *)
(* amy and bob log in and each add, update and delete (Bob, Math), any     *)
(* student id in reach, served one at a time.                              *)
SharedLogins == {[username |-> amy, password |-> pw_amy], [username |-> bob, password |-> pw_bob]}
SharedAdds == [name : {Bob}, subject : {Math}, marks : {20, 80}]
SharedUpdates == [student_id : StudentIds, marks : {0}]
SharedRoom == Len(AuditLog) < MaxShared

NextShared ==
    \/ SharedRoom /\ nextToken <= 2 /\ \E f \in SharedLogins : Login(f, ScenarioMeta)
    \/ SharedRoom /\ \E c \in Cookies, d \in SharedAdds : StudentCreate(c, ScenarioMeta, d)
    \/ SharedRoom /\ \E c \in Cookies, d \in SharedUpdates : StudentUpdate(c, ScenarioMeta, d)
    \/ SharedRoom /\ \E c \in Cookies, i \in StudentIds : StudentDelete(c, ScenarioMeta, i)
    \/ \E c \in Cookies : AuditLogList(c)
    \/ Respond

SpecShared == Init /\ [][NextShared]_vars


(* ------------------------------ claims -------------------------------- *)
StudentActions == {"CREATE_STUDENT", "UPDATE_MARKS", "INLINE_UPDATE", "DELETE_STUDENT"}

(* the live session rows of a token, stated from the tables *)
LiveRows(token) ==
    {s \in SessionToken : token # NoCookie /\ s.token = token /\ now < s.expires_at}

Live(token) == LiveRows(token) # {}

(* the rows of one (teacher, name, subject) *)
Rows(S, teacher, name, subject) ==
    {r \in S : r.teacher = teacher /\ r.name = name /\ r.subject = subject}

Last(A) == A[Len(A)]

(* the add requests with a valid name, subject and marks, and the request *)
(* metadata that carry a client address                                   *)
ValidAdds ==
    CHOOSE V \in SUBSET AddData :
        \A d \in AddData : d \in V <=> StudentSerializer_is_valid(d).ok
Addressed == {m \in MetaInputs : get_client_ip(m) # NoIp}

(* C1: every stored Student has marks in 0..100, in every state that any   *)
(* interleaving of add/merge, inline-update and delete requests reaches.   *)
C1_MarksInRange == \A r \in Student : r.marks >= 0 /\ r.marks <= 100

C1_Witness ==
    /\ \E r \in Student : r.marks = 100
    /\ \E i \in 1..Len(AuditLog) : AuditLog[i].action = "UPDATE_MARKS"
    /\ resp.status = 201

(* C2: for valid a, b with a + b <= 100, an add of a for a key that has no *)
(* student leaves exactly one student with marks a and appends             *)
(* CREATE_STUDENT (new_marks = a); an add of b for a key whose student has *)
(* marks a leaves exactly that one student with marks a + b and appends    *)
(* UPDATE_MARKS (old_marks = a, new_marks = a + b).                        *)
C2_AddThenAdd ==
    [][\A c \in Cookies, m \in Addressed, d \in ValidAdds :
         LET vd == StudentSerializer_is_valid(d)
         IN  StudentCreate(c, m, d) =>
             \E s \in LiveRows(c) :
                LET old == Rows(Student, s.teacher, vd.name, vd.subject)
                    new == Rows(Student', s.teacher, vd.name, vd.subject)
                IN  /\ old = {} =>
                          /\ \E r \in new : new = {r} /\ r.marks = d.marks
                          /\ Student' \ new = Student
                          /\ AuditLog' = Append(AuditLog,
                                audit_row(s.teacher, "CREATE_STUDENT", vd.name, vd.subject,
                                          NULL, {d.marks}, get_client_ip(m)))
                    /\ \A r \in old : r.marks + d.marks <= 100 =>
                          /\ new = {[r EXCEPT !.marks = r.marks + d.marks]}
                          /\ Student' \ new = Student \ old
                          /\ AuditLog' = Append(AuditLog,
                                audit_row(s.teacher, "UPDATE_MARKS", vd.name, vd.subject,
                                          {r.marks}, {r.marks + d.marks}, get_client_ip(m)))
    ]_vars

C2_Witness ==
    /\ resp.status = 201 /\ resp.body = "Updated marks"
    /\ Len(AuditLog) = 3
    /\ AuditLog[2].action = "CREATE_STUDENT" /\ AuditLog[2].new_marks = {20}
    /\ AuditLog[3].action = "UPDATE_MARKS"
    /\ AuditLog[3].old_marks = {20} /\ AuditLog[3].new_marks = {100}
    /\ \E r \in Student : Student = {r} /\ r.marks = 100

(* C3: when a + b > 100, an add of b for a key whose student has marks a   *)
(* fails: the answer is an error, the student table and so the stored      *)
(* marks are unchanged, and no audit entry is appended.                    *)
C3_CapExceeded ==
    [][\A c \in Cookies, d \in ValidAdds :
         LET vd == StudentSerializer_is_valid(d)
         IN  \A s \in LiveRows(c) :
                \A r \in Rows(Student, s.teacher, vd.name, vd.subject) :
                   r.marks + d.marks > 100 =>
                      \A m \in MetaInputs :
                         StudentCreate(c, m, d) =>
                            /\ resp'.status >= 400
                            /\ Student' = Student
                            /\ AuditLog' = AuditLog
    ]_vars

C3_Witness ==
    /\ resp.status = 500 /\ resp.exc = "ValidationError"
    /\ \E r \in Student : r.marks = 80
    /\ Last(AuditLog).action = "CREATE_STUDENT" /\ Last(AuditLog).new_marks = {80}


(* the entries of AuditLog about the (teacher, name, subject) of row r *)
EntriesOf(r) ==
    {i \in 1..Len(AuditLog) : /\ AuditLog[i].teacher = r.teacher
                              /\ AuditLog[i].student_name = r.name
                              /\ AuditLog[i].subject = r.subject}

Value(column) == CHOOSE n \in column : TRUE

(* the marks a CREATE_STUDENT or UPDATE_MARKS entry says were submitted *)
Submitted(e) ==
    IF e.action = "CREATE_STUDENT" THEN Value(e.new_marks)
    ELSE Value(e.new_marks) - Value(e.old_marks)

RECURSIVE SumSubmitted(_)
SumSubmitted(I) ==
    IF I = {} THEN 0
    ELSE LET i == CHOOSE j \in I : TRUE
         IN  Submitted(AuditLog[i]) + SumSubmitted(I \ {i})

(* C4: no lost update.  While a student has only been created and merged   *)
(* into, its stored marks are the sum of all the marks the accepted        *)
(* requests submitted: with marks m and two overlapping adds of b1 and b2, *)
(* m + b1 + b2.                                                            *)
C4_NoLostUpdate ==
    \A r \in Student :
        (\A i \in EntriesOf(r) : AuditLog[i].action \in {"CREATE_STUDENT", "UPDATE_MARKS"})
        => r.marks = SumSubmitted(EntriesOf(r))

(* C5: a teacher has at most one Student per (name, subject), also when    *)
(* two adds of the same new key overlap.                                   *)
C5_UniqueKey ==
    \A r1, r2 \in Student :
        (r1.teacher = r2.teacher /\ r1.name = r2.name /\ r1.subject = r2.subject)
        => r1 = r2

C5_Witness ==
    /\ resp.status = 500 /\ resp.exc = "IntegrityError"
    /\ resp.body = "Server error occurred"
    /\ Cardinality(Student) = 1

Appended ==
    /\ Len(AuditLog') = Len(AuditLog) + 1
    /\ SubSeq(AuditLog', 1, Len(AuditLog)) = AuditLog

(* C6: a step appends at most one audit entry; a step that changes the     *)
(* Student table appends one student-action entry; a student-action entry  *)
(* is appended only by a request answered with success, names a teacher    *)
(* with a live session, and its old_marks/new_marks are the marks of the   *)
(* row before/after the step (NULL for the missing side of create and      *)
(* delete); a request answered with an error changes neither table.        *)
C6_AuditMatchesMutation ==
    [][LET e == Last(AuditLog')
           added == Student' \ Student
           removed == Student \ Student'
       IN  /\ AuditLog' = AuditLog \/ Appended
           /\ Student' # Student => (Appended /\ e.action \in StudentActions)
           /\ (Appended /\ e.action \in StudentActions) =>
                 /\ resp'.status \in {200, 201}
                 /\ \E s \in SessionToken : now < s.expires_at /\ s.teacher = e.teacher
                 /\ e.action = "CREATE_STUDENT" =>
                       /\ removed = {}
                       /\ Rows(Student, e.teacher, e.student_name, e.subject) = {}
                       /\ \E r \in added :
                             /\ added = {r}
                             /\ r.teacher = e.teacher /\ r.name = e.student_name
                             /\ r.subject = e.subject
                             /\ e.old_marks = NULL /\ e.new_marks = {r.marks}
                 /\ e.action \in {"UPDATE_MARKS", "INLINE_UPDATE"} =>
                       \E r \in Rows(Student, e.teacher, e.student_name, e.subject) :
                             /\ e.old_marks = {r.marks}
                             /\ \E n \in e.new_marks :
                                   Student' = (Student \ {r}) \cup {[r EXCEPT !.marks = n]}
                 /\ e.action = "DELETE_STUDENT" =>
                       /\ added = {}
                       /\ \E r \in removed :
                             /\ removed = {r}
                             /\ r.teacher = e.teacher /\ r.name = e.student_name
                             /\ r.subject = e.subject
                             /\ e.old_marks = {r.marks} /\ e.new_marks = NULL
           /\ resp'.status >= 400 => (Student' = Student /\ AuditLog' = AuditLog)
    ]_vars

C6_Witness ==
    /\ resp.status = 200 /\ resp.body = "Student deleted successfully"
    /\ Student = {}
    /\ Len(AuditLog) = 3
    /\ AuditLog[2].action = "CREATE_STUDENT" /\ AuditLog[2].new_marks = {20}
    /\ AuditLog[3].action = "DELETE_STUDENT"
    /\ AuditLog[3].old_marks = {20} /\ AuditLog[3].new_marks = NULL

CountOf(action) == Cardinality({i \in 1..Len(AuditLog) : AuditLog[i].action = action})

(* C7: a state-changing operation and its audit entry are written together *)
(* or not at all: every session row ever created has its LOGIN entry, and  *)
(* the session row of every LOGOUT entry is gone.                          *)
C7_SessionWritesAudited ==
    /\ CountOf("LOGIN") = nextToken - 1
    /\ Cardinality(SessionToken) + CountOf("LOGOUT") <= CountOf("LOGIN")

(* C8: each teacher has at most one SessionToken row, also when two logins *)
(* of the same teacher overlap.                                            *)
C8_SingleSession ==
    \A t \in Teacher : Cardinality({s \in SessionToken : s.teacher = t.id}) <= 1


RowOf(T, token) == {s \in T : s.token = token}

(* a protected view ran for a request carrying cookie c *)
Served(c) ==
    \/ Home(c) \/ StudentList(c) \/ AuditLogList(c)
    \/ \E m \in MetaInputs :
          \/ \E d \in AddData : StudentCreate(c, m, d)
          \/ \E d \in UpdateData : StudentUpdate(c, m, d)
          \/ \E i \in StudentIds : StudentDelete(c, m, i)

(* the gate turned away a request carrying cookie c *)
Denied(c) == \E x \in BOOLEAN : AuthRequired(c, x)

(* C9: a protected view runs for a cookie only if a row with that token    *)
(* exists and now < its expires_at, and such a cookie is never turned      *)
(* away; a login stores the new token with expires_at = now + 8 as the     *)
(* teacher's only row; a completed logout removes the row of its token; a  *)
(* token whose row is gone never gets a row again, and a row never changes *)
(* while the clock only moves forward.                                     *)
C9_SessionValidity ==
    [][/\ now' >= now
       /\ \A c \in Cookies :
             /\ Live(c) \/ ~Served(c)
             /\ ~Live(c) \/ ~Denied(c)
             /\ (Ready /\ Live(c)) => ENABLED Home(c)
       /\ nextToken' # nextToken =>
             \E s \in SessionToken' :
                 /\ s.token = nextToken
                 /\ s.expires_at = now + 8
                 /\ {t \in SessionToken' : t.teacher = s.teacher} = {s}
       /\ \A c \in Cookies, m \in MetaInputs :
             (resp'.status = 302 /\ Logout(c, m)) => RowOf(SessionToken', c) = {}
       /\ \A k \in 1..(nextToken - 1) :
             RowOf(SessionToken, k) = {} => RowOf(SessionToken', k) = {}
       /\ \A s \in SessionToken : RowOf(SessionToken', s.token) \subseteq {s}
    ]_vars

C9_Witness ==
    /\ resp.status = 302 /\ resp.set_cookie = 2
    /\ RowOf(SessionToken, 1) = {}
    /\ \E s \in SessionToken : SessionToken = {s} /\ s.token = 2
    /\ Len(AuditLog) = 2
    /\ AuditLog[1].action = "LOGIN" /\ AuditLog[2].action = "LOGIN"
    /\ AuditLog[1].teacher = AuditLog[2].teacher

(* C10: a request to a protected view whose cookie is absent, unknown or   *)
(* expired is answered 401 "Authentication required" when it is an         *)
(* XMLHttpRequest and with the redirect to the login page otherwise; the   *)
(* view does not run and no table changes.                                 *)
C10_Gate ==
    [][\A c \in Cookies :
          ~Live(c) =>
             /\ ~Served(c)
             /\ \A x \in BOOLEAN :
                   /\ Ready => ENABLED AuthRequired(c, x)
                   /\ AuthRequired(c, x) =>
                         /\ resp'.status = IF x THEN 401 ELSE 302
                         /\ resp'.body = IF x THEN "Authentication required"
                                         ELSE "redirect:login"
                         /\ Student' = Student /\ AuditLog' = AuditLog
                         /\ SessionToken' = SessionToken
    ]_vars

C10_Witness ==
    /\ resp.status = 401 /\ resp.body = "Authentication required"
    /\ Student # {}
    /\ SessionToken # {}
    /\ \A s \in SessionToken : now >= s.expires_at


ValidMarks == {n \in MarksInputs : validate_marks(n).ok}

(* an inline update or a delete of student id i by the holder of cookie c *)
UpdateOrDelete(c, i) ==
    \E m \in MetaInputs :
        \/ StudentDelete(c, m, i)
        \/ \E n \in ValidMarks : StudentUpdate(c, m, [student_id |-> i, marks |-> n])

(* C11: an inline update or delete of an id that no student of the caller  *)
(* has (another teacher's student, or no student at all) is answered       *)
(* NotFound (404) and leaves the students and the audit log unchanged.     *)
C11_ForeignIdNotFound ==
    [][\A c \in Cookies, i \in StudentIds :
         \A s \in LiveRows(c) :
            (\A r \in Student : r.id = i => r.teacher # s.teacher) =>
               (UpdateOrDelete(c, i) =>
                   /\ resp'.status = 404
                   /\ Student' = Student /\ AuditLog' = AuditLog)
    ]_vars

(* C12: a request refused for its input (validation, a total above 100) or *)
(* for a missing student is answered with a client error (4xx), never with *)
(* the server-error status.                                                *)
C12_ClientErrors ==
    resp.exc \in {"ValidationError", "Http404"} =>
        (resp.status >= 400 /\ resp.status < 500)


(* C13: an inline update by the owner with marks n in 0..100 is answered   *)
(* with success, leaves the student with marks exactly n whatever its      *)
(* marks p were, changes no other row, and appends one INLINE_UPDATE entry *)
(* with old_marks = p and new_marks = n.                                   *)
C13_InlineOverwrite ==
    [][\A c \in Cookies, m \in Addressed, i \in StudentIds, n \in ValidMarks :
         \A s \in LiveRows(c) :
            \A r \in {x \in Student : x.id = i /\ x.teacher = s.teacher} :
               StudentUpdate(c, m, [student_id |-> i, marks |-> n]) =>
                  /\ resp'.status = 200
                  /\ Student' = (Student \ {r}) \cup {[r EXCEPT !.marks = n]}
                  /\ AuditLog' = Append(AuditLog,
                        audit_row(s.teacher, "INLINE_UPDATE", r.name, r.subject,
                                  {r.marks}, {n}, get_client_ip(m)))
    ]_vars

C13_Witness ==
    /\ resp.status = 200 /\ resp.body = "Marks updated successfully"
    /\ Len(AuditLog) = 3
    /\ AuditLog[2].action = "CREATE_STUDENT" /\ AuditLog[2].new_marks = {80}
    /\ AuditLog[3].action = "INLINE_UPDATE"
    /\ AuditLog[3].old_marks = {80} /\ AuditLog[3].new_marks = {80}
    /\ \E r \in Student : Student = {r} /\ r.marks = 80

(* C14: a LOGOUT entry is appended only by a request whose token is valid: *)
(* the teacher it names held a session with now < expires_at when the      *)
(* request came.                                                           *)
C14_LogoutAuthenticated ==
    [][(Len(AuditLog') > Len(AuditLog) /\ Last(AuditLog').action = "LOGOUT") =>
          \E s \in SessionToken :
             /\ s.teacher = Last(AuditLog').teacher
             /\ now < s.expires_at
    ]_vars

(* The AuditLog of the scripted session: login, add 70, add 20 on top of   *)
(* 70, inline update to 95, delete.                                        *)
ScenarioLog ==
    << audit_row(1, "LOGIN", NA, NA, NULL, NULL, "10.0.0.1"),
       audit_row(1, "CREATE_STUDENT", Bob, Math, NULL, Some(70), "10.0.0.1"),
       audit_row(1, "UPDATE_MARKS", Bob, Math, Some(70), Some(90), "10.0.0.1"),
       audit_row(1, "INLINE_UPDATE", Bob, Math, Some(90), Some(95), "10.0.0.1"),
       audit_row(1, "DELETE_STUDENT", Bob, Math, Some(95), NULL, "10.0.0.1") >>

ScenarioAdd(n) == StudentCreate(1, ScenarioMeta, [name |-> Bob, subject |-> Math, marks |-> n])

ScenarioMarks(S) == {r.marks : r \in {x \in S : x.teacher = 1 /\ x.name = Bob /\ x.subject = Math}}

(* C15: in the session of one teacher, with her log at each step the       *)
(* prefix of ScenarioLog written so far: adding (Bob, Math, 70) creates    *)
(* the student with marks 70; adding 40 is rejected and leaves the marks   *)
(* at 70 and the log as it was; adding 20 makes the marks 90; the inline   *)
(* update sets 95; the delete removes the row; and listing her audit log   *)
(* then returns five entries, newest first: DELETE_STUDENT, INLINE_UPDATE, *)
(* UPDATE_MARKS, CREATE_STUDENT and the LOGIN of the session.              *)
C15_Scenario ==
    [][/\ (AuditLog = SubSeq(ScenarioLog, 1, 1) /\ ScenarioAdd(70)) =>
              /\ resp'.status = 201
              /\ ScenarioMarks(Student') = {70}
              /\ AuditLog' = SubSeq(ScenarioLog, 1, 2)
       /\ (AuditLog = SubSeq(ScenarioLog, 1, 2) /\ ScenarioAdd(40)) =>
              /\ resp'.status >= 400
              /\ ScenarioMarks(Student') = {70}
              /\ Student' = Student
              /\ AuditLog' = AuditLog
       /\ (AuditLog = SubSeq(ScenarioLog, 1, 2) /\ ScenarioAdd(20)) =>
              /\ resp'.status = 201
              /\ ScenarioMarks(Student') = {90}
              /\ AuditLog' = SubSeq(ScenarioLog, 1, 3)
       /\ \A r \in Student :
              (/\ AuditLog = SubSeq(ScenarioLog, 1, 3)
               /\ StudentUpdate(1, ScenarioMeta, [student_id |-> r.id, marks |-> 95])) =>
                 /\ resp'.status = 200
                 /\ ScenarioMarks(Student') = {95}
                 /\ AuditLog' = SubSeq(ScenarioLog, 1, 4)
       /\ \A r \in Student :
              (/\ AuditLog = SubSeq(ScenarioLog, 1, 4)
               /\ StudentDelete(1, ScenarioMeta, r.id)) =>
                 /\ resp'.status = 200
                 /\ Student' = {}
                 /\ AuditLog' = ScenarioLog
       /\ (AuditLog = ScenarioLog /\ AuditLogList(1)) =>
              /\ resp'.status = 200
              /\ resp'.data = reverse(ScenarioLog)
              /\ Len(resp'.data) = 5
    ]_vars

C15_Witness ==
    /\ AuditLog = ScenarioLog
    /\ Student = {}
    /\ resp.status = 200 /\ resp.body = "logs"
    /\ resp.data = reverse(ScenarioLog)

(* C15 as written: the listing after the session returns 4 entries. *)
C15_FourEntries ==
    (AuditLog = ScenarioLog /\ resp.body = "logs") => Len(resp.data) = 4

(* C16: the audit log is append-only: every step leaves each entry it     *)
(* held in place and unchanged, and a delete of a student keeps the        *)
(* entries written about that student.                                     *)
C16_AppendOnly ==
    [][/\ Len(AuditLog') >= Len(AuditLog)
       /\ SubSeq(AuditLog', 1, Len(AuditLog)) = AuditLog
       /\ \A r \in Student \ Student' :
             \A i \in 1..Len(AuditLog) :
                (AuditLog[i].student_name = r.name /\ AuditLog[i].subject = r.subject) =>
                   AuditLog'[i] = AuditLog[i]
    ]_vars

C16_Witness ==
    /\ resp.body = "Student deleted successfully"
    /\ Student = {}
    /\ \E i, j \in 1..Len(AuditLog) :
          /\ i < j
          /\ AuditLog[i].action = "CREATE_STUDENT"
          /\ AuditLog[j].action = "DELETE_STUDENT"
          /\ AuditLog[i].student_name = AuditLog[j].student_name
          /\ AuditLog[i].subject = AuditLog[j].subject
          /\ AuditLog[i].teacher = AuditLog[j].teacher

(* C17: listing the audit log returns only entries of the teacher whose   *)
(* token the request carries, at most LOG_LIMIT of them, the most recent   *)
(* ones, newest first; when the teacher has more, the oldest are left out. *)
C17_Listing ==
    [][\A c \in Cookies :
          AuditLogList(c) =>
             LET teacher == check_auth(SessionToken, now, c)
                 mine(e) == e.teacher = teacher
                 own == SelectSeq(AuditLog, mine)
                 data == resp'.data
             IN  /\ Len(data) = IF Len(own) < LOG_LIMIT THEN Len(own) ELSE LOG_LIMIT
                 /\ \A k \in 1..Len(data) :
                       /\ data[k].teacher = teacher
                       /\ data[k] = own[Len(own) - k + 1]
                 /\ \A j \in 1..(Len(own) - LOG_LIMIT) :
                       \A k \in 1..Len(data) : data[k] # own[j]
    ]_vars

C17_Witness ==
    /\ resp.body = "logs"
    /\ Len(resp.data) = LOG_LIMIT
    /\ Len(AuditLog) > LOG_LIMIT + 1
    /\ AuditLog[1].teacher = 2
    /\ resp.data[1] = AuditLog[Len(AuditLog)]
    /\ resp.data[LOG_LIMIT] = AuditLog[Len(AuditLog) - LOG_LIMIT + 1]
    /\ \A k \in 1..LOG_LIMIT : resp.data[k].teacher = 1

(* C18: a logout that carries a client address deletes the session row   *)
(* of its token when there is one and leaves no row with that token, and   *)
(* changes no table when there is none; a token whose row is gone never    *)
(* gets a row again, since a new row takes a token not issued before. So   *)
(* a second logout with the same token finds no row, changes no row and    *)
(* appends no entry, and leaves the state the first logout left.           *)
C18_LogoutIdempotent ==
    [][/\ \A s \in SessionToken' \ SessionToken :
             /\ s.token = nextToken
             /\ nextToken' > nextToken
             /\ \A e \in SessionToken : e.token < nextToken
       /\ \A c \in Cookies, m \in Addressed :
             Logout(c, m) =>
                /\ \A s \in SessionToken' : s.token # c
                /\ SessionToken' = {s \in SessionToken : s.token # c}
                /\ (c = NoCookie \/ \A s \in SessionToken : s.token # c) =>
                      /\ SessionToken' = SessionToken
                      /\ AuditLog' = AuditLog
                      /\ Student' = Student
    ]_vars

C18_Witness ==
    /\ resp.status = 302 /\ resp.body = "redirect:login"
    /\ SessionToken = {}
    /\ Len(AuditLog) = 2
    /\ AuditLog[1].action = "LOGIN"
    /\ AuditLog[2].action = "LOGOUT"
    /\ AuditLog[2].teacher = AuditLog[1].teacher

Absent(c) == c = NoCookie
Unknown(c) == c # NoCookie /\ \A s \in SessionToken : s.token # c
Expired(c) == c # NoCookie /\ \E s \in SessionToken : s.token = c /\ now >= s.expires_at

(* C19: for one caller type, a request to a protected view is answered in  *)
(* the same way, with the same response and the same (unchanged) tables,   *)
(* whether its token is absent, unknown or expired: a step that answers    *)
(* one of the three is a step that answers each of the others.             *)
C19_SameDenial ==
    [][\A x \in BOOLEAN : \A c1 \in Cookies :
          ((Absent(c1) \/ Unknown(c1) \/ Expired(c1)) /\ AuthRequired(c1, x)) =>
             \A c2 \in Cookies :
                (Absent(c2) \/ Unknown(c2) \/ Expired(c2)) => AuthRequired(c2, x)
    ]_vars

C19_Witness ==
    /\ resp.status = 302 /\ resp.body = "redirect:login"
    /\ Student # {}
    /\ \E s \in SessionToken : Expired(s.token)
    /\ Unknown(nextToken)
    /\ Last(AuditLog).action # "LOGOUT"

LettersAndSpaces(t) ==
    /\ Len(strip(t)) >= MIN_NAME_LEN
    /\ \A i \in 1..Len(strip(t)) : strip(t)[i] \in Letters \cup {" "}

(* C20: a name or subject is accepted exactly when, trimmed, it has at     *)
(* least 2 characters, each a letter or a space (so a text with a digit,   *)
(* punctuation or a tab between letters is rejected), and the validators   *)
(* of forms.py accept the texts the serializer accepts.                    *)
C20_LettersAndSpaces ==
    [][\A w \in Workers :
          req[w].pc = "received" =>
             /\ SubmitName(req[w].text) =>
                   (resp'.status # 400 <=> LettersAndSpaces(req[w].text))
             /\ SubmitSubject(req[w].text) =>
                   (resp'.status # 400 <=> LettersAndSpaces(req[w].text))
             /\ forms_validate_name(req[w].text).ok <=>
                   serializer_validate_name(req[w].text).ok
             /\ forms_validate_subject(req[w].text).ok <=>
                   serializer_validate_subject(req[w].text).ok
    ]_vars

(* the three ways a login attempt fails: the form is refused, no teacher  *)
(* has the username, or the password is not the teacher's                  *)
LoginFails(f) ==
    LET form == LoginForm_is_valid(f.username, f.password)
    IN  \/ ~form.ok
        \/ \A t \in Teacher : t.username # form.username
        \/ \E t \in Teacher : t.username = form.username /\ ~check_password(t, form.password)

(* C21: a login attempt that fails (form refused, unknown username, wrong  *)
(* password) is answered with the login page and changes nothing: no       *)
(* session row is created or deleted, every session that was valid stays   *)
(* valid, and no audit entry is appended.                                  *)
C21_FailedLogin ==
    [][\A f \in LoginInputs :
          LoginFails(f) =>
             \A m \in MetaInputs :
                Login(f, m) =>
                   /\ resp' = login_page
                   /\ SessionToken' = SessionToken
                   /\ \A s \in SessionToken :
                         is_valid(s, now) => s \in SessionToken' /\ is_valid(s, now')
                   /\ AuditLog' = AuditLog
                   /\ Student' = Student
                   /\ nextToken' = nextToken
    ]_vars

C21_Witness ==
    /\ resp = login_page
    /\ \E s \in SessionToken : is_valid(s, now)
    /\ Len(AuditLog) = 1 /\ AuditLog[1].action = "LOGIN"

(* a request of SpecShared that passed the gate with cookie c *)
SharedServed(c) ==
    \/ AuditLogList(c)
    \/ \E d \in SharedAdds : StudentCreate(c, ScenarioMeta, d)
    \/ \E d \in SharedUpdates : StudentUpdate(c, ScenarioMeta, d)
    \/ \E i \in StudentIds : StudentDelete(c, ScenarioMeta, i)

(* C22: a request that passes the gate with the token of teacher t creates,*)
(* changes and deletes only Student rows of t, appends only audit entries  *)
(* of t, lists only audit entries of t, and leaves the students and the    *)
(* audit entries of every other teacher as they were.                      *)
C22_OwnDataOnly ==
    [][\A c \in Cookies : \A s \in LiveRows(c) :
          SharedServed(c) =>
             /\ \A r \in (Student' \ Student) \cup (Student \ Student') :
                   r.teacher = s.teacher
             /\ {r \in Student' : r.teacher # s.teacher} =
                   {r \in Student : r.teacher # s.teacher}
             /\ SubSeq(AuditLog', 1, Len(AuditLog)) = AuditLog
             /\ \A i \in (Len(AuditLog) + 1)..Len(AuditLog') :
                   AuditLog'[i].teacher = s.teacher
             /\ \A i \in 1..Len(resp'.data) : resp'.data[i].teacher = s.teacher
    ]_vars

C22_Witness ==
    /\ resp.status = 200 /\ resp.body = "Marks updated successfully"
    /\ Last(AuditLog).teacher = 2
    /\ \E a, b \in Student :
          /\ Student = {a, b}
          /\ a.teacher = 1 /\ b.teacher = 2
          /\ a.name = b.name /\ a.subject = b.subject
          /\ a.marks = 80 /\ b.marks = 0

(* C23: when writes of one student's marks overlap, every UPDATE_MARKS or *)
(* INLINE_UPDATE entry is appended with old_marks equal to the marks the   *)
(* student's row held immediately before that write.                       *)
C23_OldMarksCurrent ==
    [][(/\ Len(AuditLog') = Len(AuditLog) + 1
        /\ Last(AuditLog').action \in {"UPDATE_MARKS", "INLINE_UPDATE"}) =>
          \E r \in Student :
             /\ r.teacher = Last(AuditLog').teacher
             /\ r.name = Last(AuditLog').student_name
             /\ r.subject = Last(AuditLog').subject
             /\ Last(AuditLog').old_marks = Some(r.marks)
    ]_vars

(* the marks the latest DELETE_STUDENT entry of (Bob, Math) took away *)
DeletedMarks ==
    {Value(AuditLog[i].old_marks) :
        i \in {j \in 1..Len(AuditLog) :
                 /\ AuditLog[j].action = "DELETE_STUDENT"
                 /\ AuditLog[j].student_name = Bob /\ AuditLog[j].subject = Math
                 /\ \A h \in (j + 1)..Len(AuditLog) : AuditLog[h].action # "DELETE_STUDENT"}}

(* C24: a delete removes the student's row and appends DELETE_STUDENT with *)
(* old_marks the marks at deletion and new_marks null; an add of the same  *)
(* (teacher, name, subject) with marks m after it creates a new row with   *)
(* marks exactly m, whatever the deleted marks were (also when they and m  *)
(* exceed 100 together), and appends CREATE_STUDENT, not UPDATE_MARKS.     *)
C24_DeleteThenAdd ==
    [][/\ \A r \in Student :
             StudentDelete(1, ScenarioMeta, r.id) =>
                /\ resp'.status = 200
                /\ Student' = Student \ {r}
                /\ AuditLog' = Append(AuditLog,
                                  audit_row(1, "DELETE_STUDENT", r.name, r.subject,
                                            Some(r.marks), NULL, "10.0.0.1"))
       /\ \A m \in {20, 40, 70} :
             (DeletedMarks # {} /\ Student = {} /\ ScenarioAdd(m)) =>
                /\ resp'.status = 201
                /\ Student' = {[id |-> nextId, teacher |-> 1, name |-> Bob,
                                subject |-> Math, marks |-> m]}
                /\ AuditLog' = Append(AuditLog,
                                  audit_row(1, "CREATE_STUDENT", Bob, Math, NULL,
                                            Some(m), "10.0.0.1"))
    ]_vars

C24_Witness ==
    /\ resp.status = 201
    /\ DeletedMarks = {90}
    /\ Last(AuditLog).action = "CREATE_STUDENT"
    /\ Last(AuditLog).new_marks = Some(70)
    /\ \E r \in Student : Student = {r} /\ r.marks = 70 /\ r.id = 2

====
